---- MODULE Spec2Model ----
(***************************************************************************)
(* A model of the snapshot engine of the Skytable server                   *)
(* (server/src/diskstore/snapshot.rs): the naming validator SNAP_MATCH,    *)
(* the retention queue `queue::Queue`, engine construction with recovery   *)
(* (`SnapshotEngine::new`) and the two-phase snapshot pipeline (`mksnap`). *)
(*                                                                         *)
(* Strings are sequences of one-character strings, so that formatting and  *)
(* matching are computed character by character.  Option<T> is a sequence  *)
(* of length at most one: None is <<>> and Some(x) is <<x>>.               *)
(***************************************************************************)
EXTENDS Integers, Sequences, FiniteSets, TLC

(***************************************************************************)
(* Bounds of the model.                                                    *)
(***************************************************************************)
\* the configured retention count `maxtop` ranges over 0..MaxTop
MaxTop == 2
\* an engine makes at most (queue capacity + MaxOver) mksnap calls
MaxOver == 2
\* the clock takes the values 0..MaxClock (seconds after Epoch)
MaxClock == 2
\* a pre-existing snapshot root holds at most MaxEntries entries
MaxEntries == 2
\* queue harness: capacities 0..MaxCap, seeds of at most MaxSeed items,
\* items snap1..snap<MaxItems>, at most MaxAdds calls of add
MaxCap == 2
MaxSeed == 2
MaxItems == 2
MaxAdds == 4
\* validator harness: at most MaxTime characters are typed after a date prefix
MaxTime == 6

(***************************************************************************)
(* Program constants.                                                      *)
(***************************************************************************)
DEF_SNAPSHOT_COUNT == 12

None == <<>>
Some(x) == <<x>>

(***************************************************************************)
(* Characters.  `\d` of the regex crate is Unicode-aware: it matches every *)
(* decimal digit (general category Nd), of which "u0663" (ARABIC-INDIC     *)
(* DIGIT THREE) stands for the non-ASCII ones.  A bracketed range such as  *)
(* [0-5] matches ASCII digits only.  "xFF" stands for a byte sequence that *)
(* is not valid UTF-8.                                                     *)
(***************************************************************************)
Digits == <<"0", "1", "2", "3", "4", "5", "6", "7", "8", "9">>
AsciiDigit == {Digits[i] : i \in 1..10}
PerlDigit == AsciiDigit \cup {"u0663"}
InvalidUnicode == {"xFF"}

\* the characters Digits[lo+1] .. Digits[hi+1], i.e. the class [lo-hi]
Range(lo, hi) == {Digits[i + 1] : i \in lo..hi}

Sub(s, from, to) == SubSeq(s, from, to)

(***************************************************************************)
(* SNAP_MATCH:                                                             *)
(*  ^\d{4}(0[1-9]|1[012])(0[1-9]|[12][0-9]|3[01])(-)                       *)
(*   (?:(?:([01]?\d|2[0-3]))?([0-5]?\d))?([0-5]?\d)$                       *)
(***************************************************************************)
\* 0[1-9]|1[012]
MonthGroup(s) ==
    /\ Len(s) = 2
    /\ \/ s[1] = "0" /\ s[2] \in Range(1, 9)
       \/ s[1] = "1" /\ s[2] \in Range(0, 2)

\* 0[1-9]|[12][0-9]|3[01]
DayGroup(s) ==
    /\ Len(s) = 2
    /\ \/ s[1] = "0" /\ s[2] \in Range(1, 9)
       \/ s[1] \in Range(1, 2) /\ s[2] \in Range(0, 9)
       \/ s[1] = "3" /\ s[2] \in Range(0, 1)

\* [01]?\d|2[0-3]
HourGroup(s) ==
    \/ Len(s) = 1 /\ s[1] \in PerlDigit
    \/ Len(s) = 2 /\ s[1] \in Range(0, 1) /\ s[2] \in PerlDigit
    \/ Len(s) = 2 /\ s[1] = "2" /\ s[2] \in Range(0, 3)

\* [0-5]?\d
SixtyGroup(s) ==
    \/ Len(s) = 1 /\ s[1] \in PerlDigit
    \/ Len(s) = 2 /\ s[1] \in Range(0, 5) /\ s[2] \in PerlDigit

\* (?:(?:H)?M)?S anchored at both ends of t
TimeGroups(t) ==
    \/ SixtyGroup(t)
    \/ \E i \in 1..(Len(t) - 1) :
          /\ SixtyGroup(Sub(t, 1, i))
          /\ SixtyGroup(Sub(t, i + 1, Len(t)))
    \/ \E i \in 1..(Len(t) - 2) : \E j \in (i + 1)..(Len(t) - 1) :
          /\ HourGroup(Sub(t, 1, i))
          /\ SixtyGroup(Sub(t, i + 1, j))
          /\ SixtyGroup(Sub(t, j + 1, Len(t)))

SNAP_MATCH(s) ==
    /\ Len(s) >= 10
    /\ \A i \in 1..4 : s[i] \in PerlDigit
    /\ MonthGroup(Sub(s, 5, 6))
    /\ DayGroup(Sub(s, 7, 8))
    /\ s[9] = "-"
    /\ TimeGroups(Sub(s, 10, Len(s)))

\* OsStr::to_str: None when the name is not valid Unicode
to_str(name) ==
    IF \E i \in 1..Len(name) : name[i] \in InvalidUnicode THEN None ELSE Some(name)

(***************************************************************************)
(* get_snapname: Utc::now().format("%Y%m%d-%H%M%S").  The clock counts the *)
(* seconds after Epoch, chosen so that a minute, an hour and a day roll    *)
(* over within the first ticks.                                            *)
(***************************************************************************)
Epoch == [year |-> 2021, month |-> 6, day |-> 1, second |-> 86398]

\* n as w zero-padded decimal digits
RECURSIVE Pad(_, _)
Pad(n, w) == IF w = 0 THEN <<>> ELSE Append(Pad(n \div 10, w - 1), Digits[(n % 10) + 1])

get_snapname(t) ==
    LET abs == Epoch.second + t
        day == Epoch.day + (abs \div 86400)
        sod == abs % 86400
    IN  Pad(Epoch.year, 4) \o Pad(Epoch.month, 2) \o Pad(day, 2) \o <<"-">>
        \o Pad(sod \div 3600, 2) \o Pad((sod \div 60) % 60, 2) \o Pad(sod % 60, 2)

(***************************************************************************)
(* queue::Queue                                                            *)
(***************************************************************************)
Queue_new(cfg) == [queue |-> <<>>, maxlen |-> cfg[1], dontpop |-> cfg[2]]

init_pre(cfg, queue) == [queue |-> queue, maxlen |-> cfg[1], dontpop |-> cfg[2]]

is_overflow(self) == Len(self.queue) = self.maxlen

\* pop as a stack would: the newest item leaves
pop_newest(self) ==
    IF self.queue = <<>>
    THEN [self |-> self, ret |-> None]
    ELSE [self |-> [self EXCEPT !.queue = SubSeq(@, 1, Len(@) - 1)],
          ret |-> Some(self.queue[Len(self.queue)])]

\* the queue after the call and the value returned
pop(self) ==
    IF self.queue = <<>>
    THEN [self |-> self, ret |-> None]
    ELSE [self |-> [self EXCEPT !.queue = Tail(@)], ret |-> Some(Head(self.queue))]

\* an add that evicts and forgets the new item
add_no_push(self, item) ==
    IF self.dontpop
    THEN [self |-> self, ret |-> None]
    ELSE LET x == IF is_overflow(self) THEN pop(self) ELSE [self |-> self, ret |-> None]
         IN  [self |-> x.self, ret |-> x.ret]

\* an add that puts the evicted item back in place of the new one
add_requeue(self, item) ==
    IF self.dontpop
    THEN [self |-> [self EXCEPT !.queue = Append(@, item)], ret |-> None]
    ELSE IF is_overflow(self)
         THEN LET x == pop(self)
              IN  [self |-> [x.self EXCEPT !.queue = Append(@, x.ret[1])], ret |-> x.ret]
         ELSE [self |-> [self EXCEPT !.queue = Append(@, item)], ret |-> None]

add(self, item) ==
    IF self.dontpop
    THEN [self |-> [self EXCEPT !.queue = Append(@, item)], ret |-> None]
    ELSE LET x == IF is_overflow(self) THEN pop(self) ELSE [self |-> self, ret |-> None]
         IN  [self |-> [x.self EXCEPT !.queue = Append(@, item)], ret |-> x.ret]

(***************************************************************************)
(* State.                                                                  *)
(***************************************************************************)
VARIABLES
    \* --- the machine ---
    now,         \* the clock: seconds after Epoch
    root,        \* TRUE when the directory DIR_SNAPROOT exists
    disk,        \* the entries of DIR_SNAPROOT: name -> "dir" | "file" | "other"
    lock,        \* holder of the store's snapshot lock: "free" | "engine" | "other"
    \* --- the server process ---
    maxtop,      \* the configured retention count
    create_res,  \* what fs::create_dir returned in the last run of new
    listing,     \* the names read_dir yielded in the last run of new, in order
    new_result,  \* "none" | "Ok" | "EngineError" | "IoError"
    snaps,       \* SnapshotEngine.snaps, the retention queue
    pc,          \* "off" | "idle" | "spawned" | "locked" | "flushed" | "panicked"
    budget,      \* number of mksnap calls the model still lets the server make
    snapname,    \* create_this of the current (last) mksnap call
    oldsnap,     \* remove_this of the current (last) mksnap call, an Option
    before,      \* history: the disk when the current (last) mksnap call began
    log,         \* what the current (last) mksnap call has done, in order
    result,      \* Some(value returned by the last mksnap call), None if none yet
    nominal,     \* history: the start found a fresh root or at most maxtop valid
                 \* snapshot directories, and no flush, delete or task failed
    \* --- what the mksnap calls have done so far ---
    made,        \* history: the names get_snapname made, one per call, in order
    failed,      \* history: the names whose flush failed
    orphans,     \* history: the names evicted in a call whose flush or delete
                 \* failed: [name, call (its number), on_disk (after the call)]
    \* --- the queue harness ---
    q,           \* a Queue under test
    via_new,     \* TRUE when q was made by Queue::new, FALSE by init_pre
    added,       \* the items given to q.add, in order
    returned,    \* what each q.add returned, in order
    \* --- the validator harness ---
    candidate,   \* a string given to SNAP_MATCH
    verdict      \* what SNAP_MATCH.is_match returned for it

machine == <<now, root, disk, lock>>
server == <<maxtop, create_res, listing, new_result, snaps, pc, budget,
            snapname, oldsnap, before, log, result, nominal>>
history == <<made, failed, orphans>>
harness == <<q, via_new, added, returned, candidate, verdict>>
vars == <<machine, server, history, harness>>

(***************************************************************************)
(* Names.                                                                  *)
(***************************************************************************)
Valid1 == <<"2", "0", "2", "1", "0", "6", "0", "1", "-", "1", "2", "0", "0", "0", "0">>
Valid2 == <<"2", "0", "2", "1", "0", "6", "0", "1", "-", "1", "4", "0", "0", "0", "0">>
NotATimestamp == <<"n", "o", "t", "-", "a", "-", "t", "i", "m", "e", "s", "t", "a", "m", "p">>
NotUnicode == <<"s", "xFF">>

\* names that may be found under a pre-existing root
FoundNames == {Valid1, Valid2, NotATimestamp, NotUnicode}
Kinds == {"dir", "file", "other"}

\* the functions from a subset of FoundNames to Kinds with at most MaxEntries entries
Roots ==
    UNION {[S -> Kinds] : S \in {T \in SUBSET FoundNames : Cardinality(T) <= MaxEntries}}

\* the orders in which read_dir may yield the entries of d
Listings(d) ==
    LET n == Cardinality(DOMAIN d)
    IN  {l \in [1..n -> DOMAIN d] : \A i, j \in 1..n : l[i] = l[j] => i = j}

Dirs(d) == {n \in DOMAIN d : d[n] = "dir"}

NoQueue == [queue |-> <<>>, maxlen |-> 0, dontpop |-> FALSE]

(***************************************************************************)
(* The collaborators: the file system, the store's flush and its lock.     *)
(***************************************************************************)
\* fs::create_dir(DIR_SNAPROOT): what it may return
create_dir(exists) == IF exists THEN {"AlreadyExists"} ELSE {"Ok", "Other"}

\* storage::flush::snap_flush_full(name, store): it can succeed when nothing but
\* a directory is in the way; the directory `name` exists afterwards.  A failed
\* flush leaves the disk as it was or leaves a partial directory behind.
can_flush(d, name) == name \notin DOMAIN d \/ d[name] = "dir"

with_dir(d, name) == [n \in DOMAIN d \cup {name} |-> IF n = name THEN "dir" ELSE d[n]]

snap_flush_full(d, name, ok) == IF ok THEN {with_dir(d, name)} ELSE {d, with_dir(d, name)}

\* a removal that takes a missing directory for removed
can_remove_missing_ok(d, name) == TRUE

\* fs::remove_dir_all(DIR_SNAPROOT/name): it fails when there is no such entry
\* (NotFound) and may fail for any other reason; a failure removes no entry.
can_remove(d, name) == name \in DOMAIN d

remove_dir_all(d, name, ok) == IF ok THEN [n \in DOMAIN d \ {name} |-> d[n]] ELSE d

(***************************************************************************)
(* SnapshotEngine::new                                                     *)
(***************************************************************************)
\* the configuration with the `unbounded` flag never set
q_cfg_tuple_bounded(mt) == IF mt = 0 THEN <<DEF_SNAPSHOT_COUNT, FALSE>> ELSE <<mt, FALSE>>

q_cfg_tuple(mt) == IF mt = 0 THEN <<DEF_SNAPSHOT_COUNT, TRUE>> ELSE <<mt, FALSE>>

\* the loop without its check for regular files
RECURSIVE recover_any_kind(_, _, _, _)
recover_any_kind(entries, bad, i, acc) ==
    IF i > Len(entries) THEN [err |-> "none", snaps |-> acc]
    ELSE IF i = bad THEN [err |-> "IoError", snaps |-> acc]
    ELSE IF entries[i].kind # "dir"
    THEN IF to_str(entries[i].name) = None \/ ~SNAP_MATCH(entries[i].name)
         THEN [err |-> "EngineError", snaps |-> acc]
         ELSE recover_any_kind(entries, bad, i + 1, Append(acc, entries[i].name))
    ELSE recover_any_kind(entries, bad, i + 1, acc)

\* The loop `for entry in dir` from entry i on, `acc` being the Vec `snaps`.
\* entries[i] = [name, kind]; reading entry number `bad` fails (0: none does).
RECURSIVE recover(_, _, _, _)
recover(entries, bad, i, acc) ==
    IF i > Len(entries) THEN [err |-> "none", snaps |-> acc]
    ELSE IF i = bad THEN [err |-> "IoError", snaps |-> acc]
    ELSE LET name == entries[i].name
             is_file == entries[i].kind = "file"
             is_dir == entries[i].kind = "dir"
         IN  IF is_file THEN [err |-> "EngineError", snaps |-> acc]
             ELSE IF ~is_dir
             THEN IF to_str(name) = None THEN [err |-> "EngineError", snaps |-> acc]
                  ELSE IF SNAP_MATCH(to_str(name)[1])
                  THEN recover(entries, bad, i + 1, Append(acc, to_str(name)[1]))
                  ELSE [err |-> "EngineError", snaps |-> acc]
             ELSE recover(entries, bad, i + 1, acc)

\* new(maxtop, dbref): created is the outcome of create_dir, read_ok that of
\* read_dir; the result and, when it is Ok, the queue of the engine returned
new(mt, created, read_ok, entries, bad) ==
    LET q_cfg == q_cfg_tuple(mt)
    IN  IF created = "Ok" THEN [res |-> "Ok", snaps |-> Queue_new(q_cfg)]
        ELSE IF created = "AlreadyExists"
        THEN IF ~read_ok THEN [res |-> "IoError", snaps |-> NoQueue]
             ELSE LET r == recover(entries, bad, 1, <<>>)
                  IN  IF r.err # "none" THEN [res |-> r.err, snaps |-> NoQueue]
                      ELSE IF r.snaps = <<>>
                      THEN [res |-> "Ok", snaps |-> Queue_new(q_cfg)]
                      ELSE [res |-> "Ok", snaps |-> init_pre(q_cfg, r.snaps)]
        ELSE [res |-> "IoError", snaps |-> NoQueue]

\* the root a start may find without breaking the premise of `nominal`: no
\* root, or nothing but at most mt directories with valid names
valid_prior(exists, d, mt) ==
    ~exists \/ ( /\ \A n \in DOMAIN d : d[n] = "dir" /\ SNAP_MATCH(n)
                 /\ Cardinality(DOMAIN d) <= mt )

\* The server starts: it constructs the snapshot engine, once.
Start ==
    /\ pc = "off"
    /\ new_result = "none"
    /\ \E created \in create_dir(root), read_ok \in BOOLEAN, l \in Listings(disk),
          bad \in 0..Cardinality(DOMAIN disk) :
          LET entries == [i \in 1..Len(l) |-> [name |-> l[i], kind |-> disk[l[i]]]]
              r == new(maxtop, created, read_ok, entries, bad)
          IN  /\ create_res' = created
              /\ root' = (root \/ created = "Ok")
              /\ listing' = IF created = "AlreadyExists" /\ read_ok THEN l ELSE <<>>
              /\ new_result' = r.res
              /\ snaps' = r.snaps
              /\ pc' = IF r.res = "Ok" THEN "idle" ELSE "off"
    /\ nominal' = (nominal /\ valid_prior(root, disk, maxtop))
    /\ snapname' = <<>>
    /\ oldsnap' = None
    /\ before' = disk
    /\ log' = <<>>
    /\ result' = None
    /\ UNCHANGED <<now, disk, lock, maxtop, budget, history, harness>>

\* time passes; the clock is read by get_snapname only, at the start of a call
Tick ==
    /\ pc = "idle"
    /\ now < MaxClock
    /\ now' = now + 1
    /\ UNCHANGED <<root, disk, lock, server, history, harness>>

(***************************************************************************)
(* SnapshotEngine::mksnap                                                  *)
(***************************************************************************)
Ev(op, arg, ok) == [op |-> op, arg |-> arg, ok |-> ok]

\* a name evicted by the call numbered `call` and not deleted by it
Orphan(name, call, d) == [name |-> name, call |-> call, on_disk |-> name \in DOMAIN d]

\* _mksnap_nonblocking_section: the new name and the queue's eviction
_mksnap_nonblocking_section(self, t) ==
    LET name == get_snapname(t)
        old_snap_if_any == add(self, name)
    IN  [self |-> old_snap_if_any.self, create_this |-> name,
         remove_this |-> old_snap_if_any.ret]

\* mksnap up to the dispatch of the blocking section
Mksnap ==
    /\ pc = "idle"
    /\ budget > 0
    /\ LET a == _mksnap_nonblocking_section(snaps, now)
       IN  /\ snaps' = a.self
           /\ snapname' = a.create_this
           /\ oldsnap' = a.remove_this
           /\ log' = <<Ev("add", a.create_this, TRUE)>>
           /\ made' = Append(made, a.create_this)
    /\ before' = disk
    /\ pc' = "spawned"
    /\ budget' = budget - 1
    /\ result' = None
    /\ listing' = <<>>
    /\ UNCHANGED <<machine, maxtop, create_res, new_result, nominal, failed, orphans, harness>>

\* a lock that hands out its guard whoever holds it
lock_snap_unchecked(l) == [can |-> TRUE, lock |-> l]

\* lock_snap(): blocks until the snapshot lock is free, then holds it
lock_snap(l) == [can |-> l = "free", lock |-> "engine"]

\* mksnap_blocking_section, line 179: handle.lock_snap()
LockSnap ==
    /\ pc = "spawned"
    /\ lock_snap(lock).can
    /\ lock' = lock_snap(lock).lock
    /\ pc' = "locked"
    /\ log' = Append(log, Ev("lock", None, TRUE))
    /\ UNCHANGED <<now, root, disk, maxtop, create_res, listing, new_result,
                   snaps, budget, snapname, oldsnap, before, result, nominal, history, harness>>

\* an exit path that keeps the guard alive
release_leak(holder, lg) == [lock |-> holder, log |-> lg]

\* drop(lck): the lock and the log afterwards
release(holder, lg) == [lock |-> "free", log |-> Append(lg, Ev("unlock", None, TRUE))]

\* a flush failure that falls through to the removal
after_flush_fallthrough(flush_ok, old) ==
    IF old # None THEN "remove"
    ELSE IF ~flush_ok THEN "return_false" ELSE "return_true"

\* a blocking section that forgets the removal
after_flush_no_remove(flush_ok, old) ==
    IF ~flush_ok THEN "return_false" ELSE "return_true"

\* what the blocking section does once the flush has returned
after_flush(flush_ok, old) ==
    IF ~flush_ok THEN "return_false"
    ELSE IF old # None THEN "remove" ELSE "return_true"

\* a removal whose failure is only logged
after_remove_ignored(remove_ok) == TRUE

\* what the blocking section returns once remove_dir_all has returned
after_remove(remove_ok) == IF ~remove_ok THEN FALSE ELSE TRUE

\* mksnap_blocking_section, lines 181-187 (and 202-203 when nothing was evicted)
Flush ==
    /\ pc = "locked"
    /\ \E ok \in {b \in BOOLEAN : b => can_flush(disk, snapname)} :
          /\ disk' \in snap_flush_full(disk, snapname, ok)
          /\ nominal' = (nominal /\ ok)
          /\ failed' = IF ok THEN failed ELSE failed \cup {snapname}
          /\ orphans' = IF ok \/ oldsnap = None THEN orphans
                        ELSE orphans \cup {Orphan(oldsnap[1], Len(made), disk')}
          /\ LET next == after_flush(ok, oldsnap)
             IN  IF next = "remove"
                 THEN /\ pc' = "flushed"
                      /\ log' = Append(log, Ev("flush", snapname, ok))
                      /\ UNCHANGED <<lock, result>>
                 ELSE LET r == release(lock, Append(log, Ev("flush", snapname, ok)))
                      IN  /\ pc' = "idle"
                          /\ log' = r.log
                          /\ lock' = r.lock
                          /\ result' = Some(next = "return_true")
    /\ UNCHANGED <<now, root, maxtop, create_res, listing, new_result, snaps,
                   budget, snapname, oldsnap, before, made, harness>>

\* mksnap_blocking_section, lines 188-203
RemoveOld ==
    /\ pc = "flushed"
    /\ \E ok \in {b \in BOOLEAN : b => can_remove(disk, oldsnap[1])} :
          /\ disk' = remove_dir_all(disk, oldsnap[1], ok)
          /\ nominal' = (nominal /\ ok)
          /\ orphans' = IF ok THEN orphans
                        ELSE orphans \cup {Orphan(oldsnap[1], Len(made), disk')}
          /\ LET r == release(lock, Append(log, Ev("remove", oldsnap[1], ok)))
             IN  /\ log' = r.log
                 /\ lock' = r.lock
          /\ result' = Some(after_remove(ok))
    /\ pc' = "idle"
    /\ UNCHANGED <<now, root, maxtop, create_res, listing, new_result, snaps,
                   budget, snapname, oldsnap, before, made, failed, harness>>

\* a join that turns a lost task into the answer false
unwrap_or_false(joined) ==
    IF joined = None THEN [pc |-> "idle", result |-> Some(FALSE)]
                     ELSE [pc |-> "idle", result |-> joined]

\* mksnap, lines 223-227: .await.expect("MKSNAP INTERNAL SERVICE PANIC") on
\* the joined task; joined is None for a JoinError, Some(b) for Ok(b)
expect(joined) ==
    IF joined = None THEN [pc |-> "panicked", result |-> None]
                     ELSE [pc |-> "idle", result |-> joined]

\* mksnap, lines 223-227: the spawned task does not run to completion (the
\* runtime shuts down, or the closure panics and unwinding drops the guard);
\* expect() panics and mksnap returns nothing
TaskFault ==
    /\ pc \in {"spawned", "locked", "flushed"}
    /\ pc' = expect(None).pc
    /\ result' = expect(None).result
    /\ log' = Append(log, Ev("fault", None, FALSE))
    /\ lock' = IF lock = "engine" THEN "free" ELSE lock
    /\ nominal' = FALSE
    /\ UNCHANGED <<now, root, disk, maxtop, create_res, listing, new_result,
                   snaps, budget, snapname, oldsnap, before, history, harness>>

\* another user of the store's snapshot lock takes it and gives it back; the
\* lock is read by lock_snap only, so the other user takes it while a call is
\* in flight
OtherLock ==
    /\ pc \in {"spawned", "locked", "flushed"}
    /\ lock = "free"
    /\ lock' = "other"
    /\ UNCHANGED <<now, root, disk, server, history, harness>>

OtherUnlock ==
    /\ lock = "other"
    /\ lock' = "free"
    /\ UNCHANGED <<now, root, disk, server, history, harness>>

(***************************************************************************)
(* The server: any root, any retention count.                              *)
(***************************************************************************)
HarnessIdle ==
    /\ q = NoQueue
    /\ via_new = TRUE
    /\ added = <<>>
    /\ returned = <<>>
    /\ candidate = <<>>
    /\ verdict = FALSE

ServerOff ==
    /\ now = 0
    /\ lock = "free"
    /\ maxtop \in 0..MaxTop
    /\ create_res = "none"
    /\ listing = <<>>
    /\ new_result = "none"
    /\ snaps = NoQueue
    /\ pc = "off"
    /\ snapname = <<>>
    /\ oldsnap = None
    /\ before = <<>>
    /\ log = <<>>
    /\ result = None
    /\ nominal = TRUE
    /\ made = <<>>
    /\ failed = {}
    /\ orphans = {}
    /\ HarnessIdle

\* any root; MaxOver calls more than the retention count
Init ==
    /\ ServerOff
    /\ root \in BOOLEAN
    /\ disk \in Roots
    /\ ~root => disk = <<>>
    /\ budget = maxtop + MaxOver

Next ==
    \/ Start
    \/ Tick
    \/ Mksnap
    \/ LockSnap
    \/ Flush
    \/ RemoveOld
    \/ TaskFault
    \/ OtherLock
    \/ OtherUnlock

Spec == Init /\ [][Next]_vars

\* a fresh install; MaxOver calls more than the capacity of the queue, which
\* for the retention count 0 is DEF_SNAPSHOT_COUNT
InitLong ==
    /\ ServerOff
    /\ root = FALSE
    /\ disk = <<>>
    /\ budget = q_cfg_tuple(maxtop)[1] + MaxOver

SpecLong == InitLong /\ [][Next]_vars

(***************************************************************************)
(* The queue on its own: any capacity, bounded or not, made by new or by   *)
(* init_pre from any sequence of items, then any sequence of adds.         *)
(***************************************************************************)
Item(i) == <<"s", "n", "a", "p", Digits[i + 1]>>
Items == {Item(i) : i \in 1..MaxItems}

Seeds == UNION {[1..n -> Items] : n \in 0..MaxSeed}

QInit ==
    /\ now = 0
    /\ root = FALSE
    /\ disk = <<>>
    /\ lock = "free"
    /\ maxtop = 0
    /\ budget = 0
    /\ create_res = "none"
    /\ listing = <<>>
    /\ new_result = "none"
    /\ snaps = NoQueue
    /\ pc = "harness"
    /\ snapname = <<>>
    /\ oldsnap = None
    /\ before = <<>>
    /\ log = <<>>
    /\ result = None
    /\ nominal = TRUE
    /\ made = <<>>
    /\ failed = {}
    /\ orphans = {}
    /\ \E maxlen \in 0..MaxCap, dontpop \in BOOLEAN :
          \/ /\ via_new = TRUE
             /\ q = Queue_new(<<maxlen, dontpop>>)
          \/ /\ via_new = FALSE
             /\ \E queue \in Seeds : q = init_pre(<<maxlen, dontpop>>, queue)
    /\ added = <<>>
    /\ returned = <<>>
    /\ candidate = <<>>
    /\ verdict = FALSE

QAdd ==
    /\ pc = "harness"
    /\ Len(added) < MaxAdds
    /\ \E item \in Items :
          LET r == add(q, item)
          IN  /\ q' = r.self
              /\ added' = Append(added, item)
              /\ returned' = Append(returned, r.ret)
    /\ UNCHANGED <<machine, server, history, via_new, candidate, verdict>>

QNext == QAdd

QSpec == QInit /\ [][QNext]_vars

(***************************************************************************)
(* The validator on its own: a date prefix followed by typed characters,   *)
(* and the names get_snapname makes.                                       *)
(***************************************************************************)
DatePrefix == <<"2", "0", "2", "1", "0", "6", "0", "1", "-">>
BadMonthPrefix == <<"2", "0", "2", "1", "1", "3", "0", "1", "-">>
ArabicYearPrefix == <<"u0663", "0", "2", "1", "0", "6", "0", "1", "-">>
Prefixes == {DatePrefix, BadMonthPrefix, ArabicYearPrefix}
TimeChars == {"0", "2", "4", "6", "u0663"}

VInit ==
    /\ now = 0
    /\ root = FALSE
    /\ disk = <<>>
    /\ lock = "free"
    /\ maxtop = 0
    /\ budget = 0
    /\ create_res = "none"
    /\ listing = <<>>
    /\ new_result = "none"
    /\ snaps = NoQueue
    /\ pc = "validator"
    /\ snapname = <<>>
    /\ oldsnap = None
    /\ before = <<>>
    /\ log = <<>>
    /\ result = None
    /\ nominal = TRUE
    /\ made = <<>>
    /\ failed = {}
    /\ orphans = {}
    /\ q = NoQueue
    /\ via_new = TRUE
    /\ added = <<>>
    /\ returned = <<>>
    /\ candidate = <<>>
    /\ verdict = FALSE

\* SNAP_MATCH.is_match(s)
Match(s) ==
    /\ pc = "validator"
    /\ candidate' = s
    /\ verdict' = SNAP_MATCH(s)
    /\ UNCHANGED <<machine, server, history, q, via_new, added, returned>>

\* a name found on disk: a date prefix ...
Begin == candidate = <<>> /\ \E p \in Prefixes : Match(p)

\* ... and what follows it
Type ==
    /\ candidate # <<>>
    /\ Len(candidate) < Len(DatePrefix) + MaxTime
    /\ \E c \in TimeChars : Match(Append(candidate, c))

\* a name made by get_snapname
Stamp == candidate = <<>> /\ \E t \in 0..MaxClock : Match(get_snapname(t))

VNext == Begin \/ Type \/ Stamp

VSpec == VInit /\ [][VNext]_vars

(***************************************************************************)
(* Properties.                                                             *)
(***************************************************************************)
\* what the log of the current (last) call holds
Count(op) == Cardinality({i \in 1..Len(log) : log[i].op = op})
FlushOk == \E i \in 1..Len(log) : log[i].op = "flush" /\ log[i].ok
FlushFailed == \E i \in 1..Len(log) : log[i].op = "flush" /\ ~log[i].ok
RemoveOk == \E i \in 1..Len(log) : log[i].op = "remove" /\ log[i].ok
RemoveFailed == \E i \in 1..Len(log) : log[i].op = "remove" /\ ~log[i].ok
\* a mksnap call has returned and no other has begun
Returned == pc = "idle" /\ result # None
\* new has returned and no mksnap call has begun
JustBuilt == pc \in {"off", "idle"} /\ new_result # "none" /\ log = <<>>

C2_CapacityInvariant ==
    (~q.dontpop /\ Len(added) >= 1) => Len(q.queue) <= q.maxlen

\* C3 (Spec): on a root that exists and holds nothing but directories with
\* valid names, new succeeds and the queue holds those names in listing order.
C3_RecoveryAcceptsValid ==
    ( /\ JustBuilt
      /\ create_res = "AlreadyExists"
      /\ new_result # "IoError"
      /\ \A n \in DOMAIN disk : disk[n] = "dir" /\ SNAP_MATCH(n) )
    => (new_result = "Ok" /\ snaps.queue = listing)

\* C4 (Spec): with a retention count N > 0, a valid prior root and no failing
\* flush or delete, at most N snapshot directories are under the root after
\* every mksnap call that returns true.
C4_BoundedRetention ==
    (maxtop > 0 /\ nominal /\ Returned /\ result = Some(TRUE))
    => Cardinality(Dirs(disk)) <= maxtop

\* The same bound for the servers whose start created the root: there the
\* queue and the disk begin empty together.
FreshRootRetention ==
    (maxtop > 0 /\ nominal /\ create_res = "Ok" /\ Returned /\ result = Some(TRUE))
    => Cardinality(Dirs(disk)) <= maxtop

\* C5 (Spec): on a root that exists and holds a directory whose name the
\* validator rejects, new fails with EngineError.
C5_RecoveryRejectsMalformed ==
    ( /\ JustBuilt
      /\ create_res = "AlreadyExists"
      /\ new_result # "IoError"
      /\ \E n \in DOMAIN disk : disk[n] = "dir" /\ ~SNAP_MATCH(n) )
    => new_result = "EngineError"

\* C6 (Spec): a mksnap call takes the snapshot lock once and gives it back
\* once on each way out of the blocking section; it does not hold the lock
\* before the blocking section runs nor after it has returned.
C6_LockDiscipline ==
    /\ pc = "spawned" => (Count("lock") = 0 /\ Count("unlock") = 0 /\ lock # "engine")
    /\ pc \in {"locked", "flushed"} =>
          (Count("lock") = 1 /\ Count("unlock") = 0 /\ lock = "engine")
    /\ Returned => (Count("lock") = 1 /\ Count("unlock") = 1)
    /\ pc \in {"off", "idle", "panicked"} => lock # "engine"

C6_Witness ==
    /\ Returned /\ FlushOk /\ RemoveFailed
    /\ Count("lock") = 1 /\ Count("unlock") = 1 /\ lock = "free"

\* C7 (Spec): in a call whose flush fails no delete is attempted, the
\* directory of the evicted name is left as it was, and the call returns false.
C7_FlushFailureDoesNotDelete ==
    FlushFailed =>
        /\ Count("remove") = 0
        /\ Returned /\ result = Some(FALSE)
        /\ \A n \in DOMAIN before : oldsnap = Some(n) => (n \in DOMAIN disk /\ disk[n] = before[n])

C7_Witness ==
    /\ FlushFailed /\ Returned
    /\ oldsnap # None /\ oldsnap[1] \in Dirs(before) /\ oldsnap[1] \in Dirs(disk)

\* C8 (Spec): in a call whose flush succeeds and whose delete fails, the new
\* snapshot directory stays on disk and the call returns false.
C8_DeleteFailureKeepsNew ==
    (FlushOk /\ RemoveFailed) =>
        /\ Returned /\ result = Some(FALSE)
        /\ snapname \in Dirs(disk)

C8_Witness ==
    /\ FlushOk /\ RemoveFailed /\ Returned
    /\ snapname \notin DOMAIN before
    /\ oldsnap[1] \in Dirs(disk)

\* C9 (Spec): a call returns true exactly when its flush succeeded and, if a
\* name was evicted, the delete of its directory succeeded too.
C9_ResultOfMksnap ==
    Returned => (result = Some(TRUE) <=> (FlushOk /\ (oldsnap # None => RemoveOk)))

C9_Witness ==
    /\ Returned /\ result = Some(TRUE)
    /\ oldsnap # None /\ RemoveOk

\* C10 (SpecLong): with retention count 0 the queue is unbounded with capacity
\* hint 12 and no call evicts or deletes; with retention count N > 0 the queue
\* is bounded with capacity N.
C10_RetentionMapping ==
    new_result = "Ok" =>
        /\ maxtop = 0 =>
              /\ snaps.dontpop /\ snaps.maxlen = 12
              /\ oldsnap = None /\ Count("remove") = 0
              /\ DOMAIN before \subseteq DOMAIN disk
        /\ maxtop > 0 => (~snaps.dontpop /\ snaps.maxlen = maxtop)

C10_Witness ==
    /\ maxtop = 0 /\ Returned /\ result = Some(TRUE)
    /\ Len(snaps.queue) > DEF_SNAPSHOT_COUNT
    /\ oldsnap = None

\* C11 (Spec): on a root that exists and holds a regular file, wherever the
\* listing puts it, next to any number of valid snapshot directories, new
\* fails with EngineError.
C11_RecoveryRejectsFiles ==
    ( /\ JustBuilt
      /\ create_res = "AlreadyExists"
      /\ new_result # "IoError"
      /\ \E n \in DOMAIN disk : disk[n] = "file"
      /\ \A n \in DOMAIN disk : disk[n] = "file" \/ (disk[n] = "dir" /\ SNAP_MATCH(n)) )
    => (new_result = "EngineError" /\ pc = "off")

C11_Witness ==
    /\ JustBuilt /\ new_result = "EngineError" /\ pc = "off"
    /\ Len(listing) = 2
    /\ disk[listing[1]] = "dir" /\ SNAP_MATCH(listing[1])
    /\ disk[listing[2]] = "file" /\ SNAP_MATCH(listing[2])

\* the value of an ASCII digit
Val(c) == CHOOSE i \in 0..9 : Digits[i + 1] = c

\* two ASCII digits that read as a number of at most max
TwoDigits(a, b, max) == a \in AsciiDigit /\ b \in AsciiDigit /\ 10 * Val(a) + Val(b) <= max

\* the shape YYYYMMDD-HHMMSS with every field in range
ExactShape(s) ==
    /\ Len(s) = 15
    /\ \A i \in 1..4 : s[i] \in AsciiDigit
    /\ TwoDigits(s[5], s[6], 12) /\ <<s[5], s[6]>> # <<"0", "0">>
    /\ TwoDigits(s[7], s[8], 31) /\ <<s[7], s[8]>> # <<"0", "0">>
    /\ s[9] = "-"
    /\ TwoDigits(s[10], s[11], 23)
    /\ TwoDigits(s[12], s[13], 59)
    /\ TwoDigits(s[14], s[15], 59)

Stamped(s) == \E t \in 0..MaxClock : s = get_snapname(t)

\* C12 (VSpec): the validator accepts a string exactly when it has the shape
\* YYYYMMDD-HHMMSS with every field in range, and so accepts every name that
\* get_snapname makes.
C12_ValidatorExact ==
    candidate # <<>> =>
        /\ verdict <=> ExactShape(candidate)
        /\ Stamped(candidate) => verdict

\* What does hold of the validator: it accepts every string of the exact
\* shape, the names of get_snapname among them.
ValidatorAcceptsExact ==
    (candidate # <<>> /\ (ExactShape(candidate) \/ Stamped(candidate))) => verdict

\* C13 (Spec): when the task that runs the blocking section is lost, mksnap
\* returns neither true nor false: the call ends in a panic.
C13_WorkerFaultIsFatal ==
    Count("fault") > 0 => (pc = "panicked" /\ result = None)

C13_Witness ==
    /\ pc = "panicked" /\ result = None
    /\ Count("fault") = 1
    /\ FlushOk

\* C15 (Spec): while the engine is between lock_snap and the drop of the
\* guard, the engine holds the snapshot lock and nobody else does.
C15_MutualExclusion ==
    pc \in {"locked", "flushed"} => lock = "engine"

C15_Witness ==
    /\ pc = "flushed" /\ lock = "engine"
    /\ Count("lock") = 1 /\ FlushOk

\* C14 (Spec): within one mksnap call the queue is changed before the lock
\* is taken, the new name is flushed under the lock and before any delete, a
\* delete is attempted only after the flush of that call has succeeded, and
\* the only directory the call deletes or tries to delete is the one its own
\* add evicted.
C14_StepOrdering ==
    log # <<>> =>
        /\ log[1] = Ev("add", snapname, TRUE)
        /\ \A i \in 2..Len(log) : log[i].op # "add"
        /\ \A i \in 1..Len(log) : log[i].op = "flush" =>
              /\ log[i].arg = snapname
              /\ \E j \in 1..(i - 1) : log[j].op = "lock"
        /\ \A i \in 1..Len(log) : log[i].op = "remove" =>
              /\ oldsnap = Some(log[i].arg)
              /\ \E j \in 1..(i - 1) : log[j] = Ev("flush", snapname, TRUE)
        /\ \A n \in DOMAIN before \ DOMAIN disk : oldsnap = Some(n) /\ RemoveOk

C14_Witness ==
    /\ Returned /\ FlushOk /\ RemoveOk
    /\ Len(log) = 5
    /\ oldsnap[1] \in DOMAIN before \ DOMAIN disk
    /\ oldsnap[1] # snapname

\* the names in the retention queue
Queued == {snaps.queue[i] : i \in 1..Len(snaps.queue)}

\* no name was made twice
Distinct(names) == \A i, j \in 1..Len(names) : i # j => names[i] # names[j]

InBlockingSection == pc \in {"spawned", "locked", "flushed"}
KeepsNew == (Returned /\ FlushFailed) => snapname \in Queued
\* the call evicted a name and did not delete its directory
Undeleted == Returned /\ oldsnap # None /\ (FlushFailed \/ RemoveFailed)
DropsOld == Undeleted => oldsnap[1] \notin Queued

\* C16 (Spec), as stated: the blocking section never changes the queue; after
\* a call whose flush failed the queue holds the new name; after a call whose
\* delete failed or was skipped the queue does not hold the evicted name.
C16_NoRollback ==
    [][ /\ InBlockingSection => snaps' = snaps
        /\ KeepsNew'
        /\ DropsOld' ]_vars

\* C16 (Spec), amended: the same, the last part for the calls of a server
\* that never made a name twice; two calls in one second put the same name
\* in the queue twice, and the queue still holds it after evicting it once.
C16_NoRollbackDistinct ==
    [][ /\ InBlockingSection => snaps' = snaps
        /\ KeepsNew'
        /\ (Distinct(made) => DropsOld)' ]_vars

C16_Witness ==
    /\ Undeleted /\ FlushFailed /\ Distinct(made)
    /\ snapname \in Queued /\ snapname \notin DOMAIN disk
    /\ oldsnap[1] \notin Queued /\ oldsnap[1] \in Dirs(disk)

\* C17 (Spec): for a server whose start created the snapshot root, that never
\* made a name twice and saw no flush, delete or task fail, after each mksnap
\* call that has returned the names in the queue are the snapshot directories
\* under the root.
C17_QueueDiskInSync ==
    (create_res = "Ok" /\ nominal /\ Distinct(made) /\ (Returned \/ JustBuilt))
    => Queued = Dirs(disk)

C17_Witness ==
    /\ create_res = "Ok" /\ nominal /\ Distinct(made)
    /\ Returned /\ RemoveOk /\ Len(made) = 3
    /\ Queued = Dirs(disk) /\ Queued # {}

\* the call in hand flushed its own name and evicted a name whose flush had failed
EvictsFailed == Returned /\ FlushOk /\ oldsnap # None /\ oldsnap[1] \in failed
Poisoned == Count("remove") = 1 /\ RemoveFailed /\ result = Some(FALSE)

\* C18 (Spec), as stated: the call that evicts a name whose flush failed
\* fails to delete its directory and returns false though its own flush
\* succeeded.
C18_FailedFlushPoisons ==
    EvictsFailed => Poisoned

\* C18 (Spec), amended: so it is when the directory of that name is missing
\* as the delete is attempted: the failed flush left nothing behind and no
\* later flush, of the same name made again, created it.
C18_MissingDirPoisons ==
    (EvictsFailed /\ oldsnap[1] \notin DOMAIN before /\ oldsnap[1] # snapname)
    => (Poisoned /\ oldsnap[1] \notin DOMAIN disk)

C18_Witness ==
    /\ EvictsFailed /\ Poisoned /\ Distinct(made)
    /\ oldsnap[1] \notin DOMAIN before /\ oldsnap[1] \notin DOMAIN disk
    /\ snapname \in Dirs(disk)

\* a later call leaves the orphan o alone, and its directory where it was
LeftAlone(o) ==
    /\ o.call < Len(made) =>
          \A i \in 1..Len(log) : log[i].op = "remove" => log[i].arg # o.name
    /\ o.on_disk => o.name \in DOMAIN disk

\* C19 (Spec), as stated: no later call tries to delete the directory of a
\* name that was evicted in a call whose flush or delete failed, and the
\* directory stays on disk.
C19_OrphansNeverRetried ==
    \A o \in orphans : LeftAlone(o)

\* C19 (Spec), amended: so it is for a server that never made a name twice; a
\* name made twice is in the queue twice and is evicted twice.
C19_DistinctOrphansNeverRetried ==
    Distinct(made) => \A o \in orphans : LeftAlone(o)

\* on a root the start created, an orphan outlives a later call that returns
\* true, and more snapshot directories than the retention count are on disk
C19_Witness ==
    /\ create_res = "Ok" /\ maxtop > 0 /\ Distinct(made)
    /\ Returned /\ result = Some(TRUE)
    /\ \E o \in orphans : o.call < Len(made) /\ o.on_disk /\ o.name \in Dirs(disk)
    /\ Cardinality(Dirs(disk)) > maxtop

====
